---- MODULE Spec2Model ----
(***************************************************************************)
(* The optimization engine of ga-visualize (class GeneticAlgorithm) and    *)
(* the callers that hold its configuration object and its return values.   *)
(*                                                                         *)
(* Numbers.  Coordinates and fitness values are JavaScript numbers; the    *)
(* model keeps the integer points of the search domain.  Math.random() is  *)
(* a nondeterministic choice: an expression Math.random() * w + lo yields  *)
(* any integer point of the real interval the code draws from.  Rates are  *)
(* kept in tenths (10 = 1.0).  The non-numbers a JavaScript run produces   *)
(* (undefined, NaN, Infinity) are values of the model with JavaScript's    *)
(* arithmetic and comparison rules.                                        *)
(*                                                                         *)
(* Objects.  An Individual object is a record that carries its identity   *)
(* `id`: two records with the same id are two references to one object,    *)
(* and a write to the object is a write to every record with its id.       *)
(* Configuration objects live in `configObjects`; `config` is the          *)
(* reference the engine holds.                                             *)
(***************************************************************************)
EXTENDS Integers, Sequences, FiniteSets, TLC

VARIABLES
    configObjects,   \* configuration objects, by identity
    config,          \* this.config: a reference into configObjects
    population,      \* this.population: array of Individual objects
    generation,      \* this.generation
    bestFitness,     \* this.bestFitness
    averageFitness,  \* this.averageFitness
    held,            \* the value the caller received from its last getter call
    lastOp,          \* the last call made on the engine, or by the caller
    lastResult,      \* what that call returned or threw (initializePopulation: the phase it was called in)
    evolveCalls,     \* evolve() calls since construction or the last initialize
    initialized,     \* whether initializePopulation() has been called
    givenConfig,     \* the configuration value handed to the constructor
    calls            \* the calls the keeping caller has made

vars == <<configObjects, config, population, generation, bestFitness,
          averageFitness, held, lastOp, lastResult, evolveCalls, initialized, givenConfig,
          calls>>

engineState == <<population, generation, bestFitness, averageFitness>>

----------------------------------------------------------------------------
\* Bounds of the model

MaxPopulationSize == 2
MaxGenerations == 2
MaxTournamentSize == 2
MaxBound == 1
ExtraCalls == 1
MaxCalls == 3
MaxCoordinate == 4

----------------------------------------------------------------------------
\* JavaScript numbers

NaN == -1000
Undefined == -1001
Infinity == 1000

IsNum(v) == v # NaN /\ v # Undefined

Add(a, b) == IF IsNum(a) /\ IsNum(b) THEN a + b ELSE NaN
Sub(a, b) == IF IsNum(a) /\ IsNum(b) THEN a - b ELSE NaN
Mul(a, b) == IF IsNum(a) /\ IsNum(b) THEN a * b ELSE NaN
Lt(a, b) == IsNum(a) /\ IsNum(b) /\ a < b
MathAbs(a) == IF IsNum(a) THEN (IF a < 0 THEN -a ELSE a) ELSE NaN
MathMin2(a, b) == IF IsNum(a) /\ IsNum(b) THEN (IF a < b THEN a ELSE b) ELSE NaN
MathMax2(a, b) == IF IsNum(a) /\ IsNum(b) THEN (IF a > b THEN a ELSE b) ELSE NaN

\* a / b as the exact quotient <<a, b>>; 0/0 and NaN/b are NaN
Div(a, b) == IF ~IsNum(a) \/ (a = 0 /\ b = 0) THEN <<NaN, 1>> ELSE <<a, b>>

\* Math.random() * (hi - lo) + lo, with lo2 = 2*lo and hi2 = 2*hi: the integer
\* points of [lo, hi), of {lo} when hi = lo, of (hi, lo] when hi < lo
RandomBetween(lo2, hi2) ==
    IF ~IsNum(lo2) \/ ~IsNum(hi2) THEN {NaN}
    ELSE IF lo2 = hi2 THEN {lo2 \div 2}
    ELSE IF lo2 < hi2 THEN {k \in (lo2 \div 2)..(hi2 \div 2 + 1) : lo2 <= 2 * k /\ 2 * k < hi2}
    ELSE {k \in (hi2 \div 2)..(lo2 \div 2 + 1) : hi2 < 2 * k /\ 2 * k <= lo2}

\* the outcomes of Math.random() < rate, rate in tenths
RandomBelow(rate) == {b \in BOOLEAN : (b /\ rate > 0) \/ (~b /\ rate < 10)}

----------------------------------------------------------------------------
\* Configurations

\* GAConfig objects; rates in tenths
GAConfig(sizes, gens, rates, tournaments, bounds) ==
    {[populationSize |-> n, generations |-> g, mutationRate |-> r[1], crossoverRate |-> r[2],
      tournamentSize |-> t, bounds |-> b] :
        n \in sizes, g \in gens, r \in rates, t \in tournaments, b \in bounds}

\* the search domain of the model
Domain == [min |-> -MaxBound, max |-> MaxBound]

\* <<mutationRate, crossoverRate>>: never, half of the time, always
RatePairs == {<<0, 0>>, <<5, 5>>, <<10, 10>>}

\* configurations as section 3 of the specification describes them
ValidConfigs ==
    GAConfig(1..MaxPopulationSize, 1..MaxGenerations, RatePairs, 1..MaxTournamentSize, {Domain})

\* a configuration of the driver's kind, and the configurations that break one
\* of the constraints on it
BaseConfig ==
    [populationSize |-> MaxPopulationSize, generations |-> MaxGenerations, mutationRate |-> 5,
     crossoverRate |-> 5, tournamentSize |-> MaxTournamentSize, bounds |-> Domain]

InvalidConfigs ==
    {[BaseConfig EXCEPT !.populationSize = n] : n \in {0, -1}}
    \cup {[BaseConfig EXCEPT !.generations = 0], [BaseConfig EXCEPT !.tournamentSize = 0]}
    \cup {[BaseConfig EXCEPT !.mutationRate = r] : r \in {-5, 15}}
    \cup {[BaseConfig EXCEPT !.crossoverRate = r] : r \in {-5, 15}}
    \cup {[BaseConfig EXCEPT !.bounds = b] :
             b \in {[min |-> 0, max |-> 0], [min |-> MaxBound, max |-> -MaxBound]}}

\* the configurations of the callers that keep what they pass and receive
CallerConfigs ==
    GAConfig(1..MaxPopulationSize, {MaxGenerations}, {<<5, 5>>}, 1..MaxTournamentSize,
             {Domain})

\* the configuration object the engine works under
Cfg == configObjects[config]

----------------------------------------------------------------------------
\* Individual objects

\* a reference to the object where the code makes a copy of it
SpreadAlias(o) == o

\* { ...o }: a new object with o's fields (id 0: its identity is given when it is
\* stored in an array)
Spread(o) == [o EXCEPT !.id = 0]

\* { ...undefined }: a new object without fields; reading any field gives undefined
EmptyObject == [id |-> 0, x |-> Undefined, y |-> Undefined, fitness |-> Undefined]

Ids(objs) == {objs[i].id : i \in 1..Len(objs)}

\* the smallest identity not in use
FreshId(used) ==
    CHOOSE j \in 1..(Cardinality(used) + 1) : j \notin used /\ \A m \in 1..(j - 1) : m \in used

\* the array of the objects `objs`: a new object gets a new identity
RECURSIVE Stored(_, _)
Stored(objs, used) ==
    IF Len(objs) = 0 THEN <<>>
    ELSE LET o == Head(objs)
             id == IF o.id = 0 THEN FreshId(used) ELSE o.id
         IN <<[o EXCEPT !.id = id]>> \o Stored(Tail(objs), used \cup {id})

\* the references `refs` after the objects of `objs` were written
Synced(refs, objs) ==
    [i \in 1..Len(refs) |->
        IF \E k \in 1..Len(objs) : objs[k].id = refs[i].id
        THEN objs[CHOOSE k \in 1..Len(objs) : objs[k].id = refs[i].id]
        ELSE refs[i]]

----------------------------------------------------------------------------
\* GeneticAlgorithm: private methods

\* x * x + y for x * x + y * y
sphereFunctionLinearY(x, y) == Add(Mul(x, x), y)

sphereFunction(x, y) == Add(Mul(x, x), Mul(y, y))

createRandomIndividual(c) ==
    LET coords == RandomBetween(2 * c.bounds.min, 2 * c.bounds.max)
    IN {[id |-> 0, x |-> x, y |-> y, fitness |-> sphereFunction(x, y)] :
            x \in coords, y \in coords}

\* evaluatePopulation left out: every object keeps the fitness it came with
evaluatePopulationSkipped(objs) == objs

\* evaluatePopulation: every object of the array gets its fitness written
evaluatePopulation(objs) ==
    [i \in 1..Len(objs) |-> [objs[i] EXCEPT !.fitness = sphereFunction(objs[i].x, objs[i].y)]]

\* the clamp without its upper end
ClampBelowOnly(c, v) == MathMax2(c.bounds.min, v)

\* Math.max(min, Math.min(max, v))
Clamp(c, v) == MathMax2(c.bounds.min, MathMin2(c.bounds.max, v))

\* the loop with <= for <: the last of the equally fit contenders wins
RECURSIVE TournamentBestLastWins(_, _)
TournamentBestLastWins(d, i) ==
    IF i = 1 THEN d[1]
    ELSE LET best == TournamentBestLastWins(d, i - 1)
         IN IF IsNum(population[d[i]].fitness) /\ IsNum(population[best].fitness)
               /\ population[d[i]].fitness <= population[best].fitness
            THEN d[i] ELSE best

\* the population slot the tournament loop leaves in `best` after the draws d[1..i]
RECURSIVE TournamentBest(_, _)
TournamentBest(d, i) ==
    IF i = 1 THEN d[1]
    ELSE LET best == TournamentBest(d, i - 1)
         IN IF Lt(population[d[i]].fitness, population[best].fitness) THEN d[i] ELSE best

\* tournamentSelection on an empty array: the first draw reads population[0],
\* which is undefined; a second draw then reads candidate.fitness of undefined
tournamentThrows == Len(population) = 0 /\ Cfg.tournamentSize >= 2

\* the draws of one tournament, as population slots: the first draw and one for
\* each pass of the loop, each Math.floor(Math.random() * this.population.length)
TournamentDraws ==
    LET draws == IF Cfg.tournamentSize < 1 THEN 1 ELSE Cfg.tournamentSize
    IN [1..draws -> 1..Len(population)]

\* return { ...best } after the draws d
tournamentWinner(d) == Spread(population[TournamentBest(d, Len(d))])

\* the objects tournamentSelection can return
tournamentSelection ==
    IF Len(population) = 0 THEN {EmptyObject}
    ELSE {tournamentWinner(d) : d \in TournamentDraws}

\* the children with alpha = 1: the interval reaches a whole d beyond the parents
blxChildrenAlphaOne(parent1, parent2) ==
    LET dx == Mul(2, MathAbs(Sub(parent1.x, parent2.x)))
        dy == Mul(2, MathAbs(Sub(parent1.y, parent2.y)))
        xs == {Clamp(Cfg, v) :
                  v \in RandomBetween(Sub(Mul(2, MathMin2(parent1.x, parent2.x)), dx),
                                      Add(Mul(2, MathMax2(parent1.x, parent2.x)), dx))}
        ys == {Clamp(Cfg, v) :
                  v \in RandomBetween(Sub(Mul(2, MathMin2(parent1.y, parent2.y)), dy),
                                      Add(Mul(2, MathMax2(parent1.y, parent2.y)), dy))}
    IN {[id |-> 0, x |-> x, y |-> y, fitness |-> 0] : x \in xs, y \in ys}

\* the objects blxAlphaCrossover can build as one child; alpha = 0.5, so with the
\* interval ends doubled alpha * d doubles to d
blxChildren(parent1, parent2) ==
    LET dx == MathAbs(Sub(parent1.x, parent2.x))
        dy == MathAbs(Sub(parent1.y, parent2.y))
        minX2 == Sub(Mul(2, MathMin2(parent1.x, parent2.x)), dx)
        maxX2 == Add(Mul(2, MathMax2(parent1.x, parent2.x)), dx)
        minY2 == Sub(Mul(2, MathMin2(parent1.y, parent2.y)), dy)
        maxY2 == Add(Mul(2, MathMax2(parent1.y, parent2.y)), dy)
        xs == {Clamp(Cfg, v) : v \in RandomBetween(minX2, maxX2)}
        ys == {Clamp(Cfg, v) : v \in RandomBetween(minY2, maxY2)}
    IN {[id |-> 0, x |-> x, y |-> y, fitness |-> 0] : x \in xs, y \in ys}

\* the pairs [child1, child2] blxAlphaCrossover can return: two independent draws
blxAlphaCrossover(parent1, parent2) ==
    blxChildren(parent1, parent2) \X blxChildren(parent1, parent2)

\* the standard normal samples of the model
gaussianRandom == {-5, 0, 5}

\* gaussianMutation without the test of the mutation rate and with both draws
\* at 0.5
gaussianMutationUpward(individual) ==
    LET mutated == Spread(individual)
        sigma10 == Cfg.bounds.max - Cfg.bounds.min
    IN {[mutated EXCEPT
            !.x = Clamp(Cfg, Add(mutated.x, (5 * sigma10) \div 10)),
            !.y = Clamp(Cfg, Add(mutated.y, (5 * sigma10) \div 10))]}

\* gaussianMutation without the test of the mutation rate
gaussianMutationAlways(individual) ==
    LET mutated == Spread(individual)
        sigma10 == Cfg.bounds.max - Cfg.bounds.min
    IN {[mutated EXCEPT
            !.x = Clamp(Cfg, Add(mutated.x, (gx * sigma10) \div 10)),
            !.y = Clamp(Cfg, Add(mutated.y, (gy * sigma10) \div 10))] :
           gx \in gaussianRandom, gy \in gaussianRandom}

\* the objects gaussianMutation can return; sigma = (max - min) * 0.1
gaussianMutation(individual) ==
    LET mutated == Spread(individual)
        sigma10 == Cfg.bounds.max - Cfg.bounds.min
        moved == {[mutated EXCEPT
                      !.x = Clamp(Cfg, Add(mutated.x, (gx * sigma10) \div 10)),
                      !.y = Clamp(Cfg, Add(mutated.y, (gy * sigma10) \div 10))] :
                     gx \in gaussianRandom, gy \in gaussianRandom}
    IN UNION {IF mutate THEN moved ELSE {mutated} : mutate \in RandomBelow(Cfg.mutationRate)}

\* Math.min(...fitnesses)
RECURSIVE MathMin(_)
MathMin(fs) ==
    IF Len(fs) = 0 THEN Infinity
    ELSE IF Len(fs) = 1 THEN (IF IsNum(fs[1]) THEN fs[1] ELSE NaN)
    ELSE MathMin2(IF IsNum(fs[1]) THEN fs[1] ELSE NaN, MathMin(Tail(fs)))

\* fitnesses.reduce((sum, f) => sum + f, 0)
RECURSIVE Sum(_)
Sum(fs) == IF Len(fs) = 0 THEN 0 ELSE Add(Sum(SubSeq(fs, 1, Len(fs) - 1)), fs[Len(fs)])

Fitnesses(objs) == [i \in 1..Len(objs) |-> objs[i].fitness]

\* updateStatistics: the entries pushed to bestFitness and averageFitness
StatBest(objs) == MathMin(Fitnesses(objs))
StatAverage(objs) == Div(Sum(Fitnesses(objs)), Len(objs))

\* history.unshift(entry) for history.push(entry)
Unshifted(history, entry) == <<entry>> \o history

\* this.bestFitness.push(best), this.averageFitness.push(average)
Pushed(history, entry) == Append(history, entry)

----------------------------------------------------------------------------
\* GeneticAlgorithm: constructor, initializePopulation, evolve

NoValue == [kind |-> "none", items |-> <<>>, stats |-> <<>>]

\* new GeneticAlgorithm(c): this.config = c, the caller's object itself
Constructed(c) ==
    /\ configObjects = [o \in {"arg"} |-> c]
    /\ config = "arg"
    /\ givenConfig = c
    /\ population = <<>>
    /\ generation = 0
    /\ bestFitness = <<>>
    /\ averageFitness = <<>>
    /\ held = NoValue
    /\ lastOp = "new"
    /\ lastResult = "constructed"
    /\ evolveCalls = 0
    /\ initialized = FALSE
    /\ calls = 0

\* the phase of the engine: what the next initializePopulation() is called in
Phase ==
    IF ~initialized THEN "uninitialized"
    ELSE IF generation >= Cfg.generations THEN "terminal"
    ELSE "running"

\* the history kept over initializePopulation()
KeptHistory(history) == history

\* this.bestFitness = [] and this.averageFitness = []
ClearedHistory(history) == <<>>

\* the caller's references after the engine wrote the objects of its new array
HeldAfter(objs) == [held EXCEPT !.items = Synced(held.items, objs)]

initializePopulation ==
    \E created \in [1..Cfg.populationSize -> createRandomIndividual(Cfg)] :
        LET evaluated == evaluatePopulation(Stored(created, Ids(held.items)))
        IN /\ population' = evaluated
           /\ held' = HeldAfter(evaluated)
           /\ generation' = 0
           /\ bestFitness' = Pushed(ClearedHistory(bestFitness), StatBest(evaluated))
           /\ averageFitness' = Pushed(ClearedHistory(averageFitness), StatAverage(evaluated))
           /\ initialized' = TRUE
           /\ lastOp' = "initializePopulation"
           /\ lastResult' = Phase
           /\ evolveCalls' = 0
           /\ UNCHANGED <<configObjects, config, givenConfig>>

\* the guard with > for >=
TerminatedLate(c, g) == g > c.generations

\* if (this.generation >= this.config.generations) return false
Terminated(c, g) == g >= c.generations

\* newPopulation.push(child2) without its test
PushSecondAlways(c, newPopulation) == TRUE

\* if (newPopulation.length < this.config.populationSize) newPopulation.push(child2)
PushSecond(c, newPopulation) == Len(newPopulation) < c.populationSize

\* the objects gaussianMutation can return for the children of `children`
Mutated(children) == UNION {gaussianMutation(child) : child \in children}

\* the pairs <<child1, child2>> one pass of the loop body can produce: the two
\* children of a crossover are drawn, and then mutated, independently
Offspring ==
    UNION {UNION {IF crossover
                  THEN LET crossed == blxAlphaCrossover(parent1, parent2)
                       IN Mutated({c[1] : c \in crossed}) \X Mutated({c[2] : c \in crossed})
                  ELSE gaussianMutation(Spread(parent1)) \X gaussianMutation(Spread(parent2)) :
                  crossover \in RandomBelow(Cfg.crossoverRate)} :
           parent1 \in tournamentSelection, parent2 \in tournamentSelection}

\* the arrays the while loop can end with, from newPopulation on
RECURSIVE Breed(_, _)
Breed(newPopulation, offspring) ==
    IF ~(Len(newPopulation) < Cfg.populationSize) THEN {newPopulation}
    ELSE UNION {LET pushed == Append(newPopulation, pair[1])
                IN Breed(IF PushSecond(Cfg, pushed) THEN Append(pushed, pair[2]) ELSE pushed,
                         offspring) :
                pair \in offspring}

evolve ==
    /\ evolveCalls < (IF Cfg.generations > 0 THEN Cfg.generations ELSE 0) + ExtraCalls
    /\ evolveCalls' = evolveCalls + 1
    /\ lastOp' = "evolve"
    /\ UNCHANGED <<configObjects, config, initialized, givenConfig>>
    /\ IF Terminated(Cfg, generation)
       THEN /\ lastResult' = "false"
            /\ UNCHANGED <<population, generation, bestFitness, averageFitness, held>>
       ELSE IF 0 < Cfg.populationSize /\ tournamentThrows
       THEN /\ lastResult' = "TypeError"
            /\ UNCHANGED <<population, generation, bestFitness, averageFitness, held>>
       ELSE \E newPopulation \in Breed(<<>>, Offspring) :
               LET evaluated == evaluatePopulation(
                                    Stored(newPopulation, Ids(population) \cup Ids(held.items)))
               IN /\ population' = evaluated
                  /\ held' = HeldAfter(evaluated)
                  /\ generation' = generation + 1
                  /\ bestFitness' = Pushed(bestFitness, StatBest(evaluated))
                  /\ averageFitness' = Pushed(averageFitness, StatAverage(evaluated))
                  /\ lastResult' = "true"

----------------------------------------------------------------------------
\* The engine under initializePopulation() and evolve() calls

Init == \E c \in ValidConfigs : Constructed(c)

Next ==
    \/ initializePopulation /\ UNCHANGED calls
    \/ evolve /\ UNCHANGED calls

Spec == Init /\ [][Next]_vars

----------------------------------------------------------------------------
\* GeneticAlgorithm: the getters; `held` is what the caller received

\* this.population.reduce((best, current) => current.fitness < best.fitness ? current : best)
RECURSIVE ReduceBest(_, _)
ReduceBest(objs, i) ==
    IF i = 1 THEN objs[1]
    ELSE LET best == ReduceBest(objs, i - 1)
         IN IF Lt(objs[i].fitness, best.fitness) THEN objs[i] ELSE best

\* getBestIndividual(): <<>> for null, else the population's object itself
BestIndividual == IF Len(population) = 0 THEN <<>> ELSE <<ReduceBest(population, Len(population))>>

Returned(op, value, result) ==
    /\ held' = value
    /\ lastOp' = op
    /\ lastResult' = result
    /\ UNCHANGED <<configObjects, config, population, generation, bestFitness, averageFitness,
                   evolveCalls, initialized, givenConfig>>

\* [...this.population]: a new array of the same objects
getPopulation ==
    Returned("getPopulation", [kind |-> "population", items |-> population, stats |-> <<>>],
             "array")

getGeneration ==
    Returned("getGeneration", [kind |-> "generation", items |-> <<>>, stats |-> <<generation>>],
             "number")

getBestIndividual ==
    Returned("getBestIndividual",
             [kind |-> "individual", items |-> BestIndividual, stats |-> <<>>],
             IF Len(BestIndividual) = 0 THEN "null" ELSE "object")

\* new arrays of the history entries; currentBest as getBestIndividual returns it
getStatistics ==
    Returned("getStatistics",
             [kind |-> "statistics", items |-> BestIndividual,
              stats |-> <<generation, bestFitness, averageFitness>>],
             "object")

----------------------------------------------------------------------------
\* The caller: writes to what it holds

\* the references `objs` after field f of the object `id` was set to v
Written(objs, id, f, v) ==
    [i \in 1..Len(objs) |-> IF objs[i].id = id THEN [objs[i] EXCEPT ![f] = v] ELSE objs[i]]

Caller(op) ==
    /\ lastOp' = op
    /\ lastResult' = "none"
    /\ UNCHANGED <<config, generation, bestFitness, averageFitness, evolveCalls, initialized,
                   givenConfig>>

\* returned[i].x = v, returned[i].fitness = v, ... on an Individual the caller holds
callerWritesIndividual ==
    \E i \in 1..Len(held.items), f \in {"x", "y", "fitness"} :
        LET id == held.items[i].id
            v == MaxBound + 1
        IN /\ held' = [held EXCEPT !.items = Written(held.items, id, f, v)]
           /\ population' = Written(population, id, f, v)
           /\ Caller("callerWritesIndividual")
           /\ UNCHANGED configObjects

\* returned.pop() on the array getPopulation() returned, bestFitness.pop() and
\* averageFitness.pop() on the arrays getStatistics() returned
callerEditsArray ==
    /\ \/ /\ held.kind = "population" /\ Len(held.items) > 0
          /\ held' = [held EXCEPT !.items = SubSeq(held.items, 1, Len(held.items) - 1)]
       \/ /\ held.kind = "statistics" /\ Len(held.stats[2]) > 0
          /\ held' = [held EXCEPT !.stats[2] = SubSeq(@, 1, Len(@) - 1),
                                  !.stats[3] = SubSeq(@, 1, Len(@) - 1)]
    /\ Caller("callerEditsArray")
    /\ UNCHANGED <<configObjects, population>>

\* the caller sets a field of the configuration object it passed to the constructor
callerWritesConfig ==
    /\ \E v \in 1..MaxPopulationSize :
           \/ configObjects' = [configObjects EXCEPT !["arg"].populationSize = v]
           \/ configObjects' = [configObjects EXCEPT !["arg"].generations = v]
    /\ Caller("callerWritesConfig")
    /\ UNCHANGED <<population, held>>

----------------------------------------------------------------------------
\* The engine with a caller that keeps the configuration object and the
\* return values

CallerInit == \E c \in CallerConfigs : Constructed(c)

\* one more call, while the caller has calls left
Counted == calls < MaxCalls /\ calls' = calls + 1

CallerNext ==
    \/ Counted /\ initializePopulation
    \/ Counted /\ evolve
    \/ Counted /\ getPopulation
    \/ Counted /\ getGeneration
    \/ Counted /\ getBestIndividual
    \/ Counted /\ getStatistics
    \/ Counted /\ callerWritesIndividual
    \/ Counted /\ callerEditsArray
    \/ Counted /\ callerWritesConfig

SpecCaller == CallerInit /\ [][CallerNext]_vars

----------------------------------------------------------------------------
\* The engine constructed with any configuration object

AnyConfigInit == \E c \in InvalidConfigs \cup {BaseConfig} : Constructed(c)

SpecAnyConfig == AnyConfigInit /\ [][Next]_vars

----------------------------------------------------------------------------
\* The objective function registry.  Bounds and contour levels are kept in
\* hundredths (512 = 5.12).  The functions sphere and rosenbrock are polynomials
\* and are computed as the code computes them; ackley and rastrigin use exp, sqrt
\* and cos and have no operator here.

Entry(name, lo, hi, levels) ==
    [name |-> name, bounds |-> [min |-> lo, max |-> hi], contourLevels |-> levels]

\* OBJECTIVE_FUNCTIONS of objective-functions.ts
OBJECTIVE_FUNCTIONS ==
    [t \in {"sphere", "rosenbrock", "ackley"} |->
        CASE t = "sphere" ->
                 Entry("Sphere Function", -1000, 1000,
                       <<10, 25, 50, 100, 200, 400, 600, 900, 1200, 1600, 2000, 2500>>)
          [] t = "rosenbrock" ->
                 Entry("Rosenbrock Function", -200, 200,
                       <<50, 100, 200, 400, 600, 1000, 1500, 2500, 3500, 5000, 7000,
                         10000, 15000, 20000>>)
          [] t = "ackley" ->
                 Entry("Ackley Function", -500, 500,
                       <<50, 100, 200, 300, 500, 700, 1000, 1300, 1600, 2000>>)]

\* OBJECTIVE_FUNCTIONS of the registry with the rastrigin entry
OBJECTIVE_FUNCTIONS_rastrigin ==
    [t \in {"sphere", "rosenbrock", "ackley", "rastrigin"} |->
        IF t = "rastrigin"
        THEN Entry("Rastrigin Function", -512, 512,
                   <<50, 100, 200, 500, 1000, 2000, 3000, 4000, 5000, 6000, 8000, 10000>>)
        ELSE OBJECTIVE_FUNCTIONS[t]]

\* the two registry modules of the repository, by file
Registries ==
    [file \in {"objective-functions.ts", "part_003"} |->
        IF file = "part_003" THEN OBJECTIVE_FUNCTIONS_rastrigin ELSE OBJECTIVE_FUNCTIONS]

\* OBJECTIVE_FUNCTIONS[type] of a key the object does not have
UndefinedEntry ==
    [name |-> "undefined", bounds |-> [min |-> Undefined, max |-> Undefined],
     contourLevels |-> <<>>]

\* getObjectiveFunction(type): OBJECTIVE_FUNCTIONS[type]
getObjectiveFunction(registry, type) ==
    IF type \in DOMAIN registry THEN registry[type] ELSE UndefinedEntry

\* x * x + x for x * x + y * y
sphereOfXOnly(x, y) == x * x + x

\* OBJECTIVE_FUNCTIONS.sphere.fn
sphere(x, y) == x * x + y * y

\* the quadratic term without its factor b
rosenbrockUnscaled(x, y) == (1 - x) ^ 2 + (y - x ^ 2) ^ 2

\* OBJECTIVE_FUNCTIONS.rosenbrock.fn, a = 1 and b = 100
rosenbrock(x, y) == (1 - x) ^ 2 + 100 * (y - x ^ 2) ^ 2

\* registry[f].fn(x, y) for the polynomial entries
RegistryFn(f, x, y) == IF f = "rosenbrock" THEN rosenbrock(x, y) ELSE sphere(x, y)

----------------------------------------------------------------------------
\* The engine as useGeneticAlgorithm constructs it: DEFAULT_CONFIG with the
\* population size, the generation count, the function type and that
\* function's bounds

\* getBoundsForFunction(type), in the units of the coordinates
getBoundsForFunction(type) ==
    LET b == getObjectiveFunction(OBJECTIVE_FUNCTIONS, type).bounds
    IN [min |-> b.min \div 100, max |-> b.max \div 100]

\* { ...DEFAULT_CONFIG, populationSize, generations, functionType, bounds }
DriverConfig(f, n, g) ==
    [populationSize |-> n, generations |-> g, mutationRate |-> 1, crossoverRate |-> 8,
     tournamentSize |-> 3, functionType |-> f, bounds |-> getBoundsForFunction(f)]

DriverConfigs == {DriverConfig(f, 1, 1) : f \in DOMAIN OBJECTIVE_FUNCTIONS}

DriverConfigInit == \E c \in DriverConfigs : Constructed(c)

SpecDriverConfig == DriverConfigInit /\ [][Next]_vars

----------------------------------------------------------------------------
\* The private methods as genetic-algorithm.test.ts calls them on a newly
\* constructed engine: tournamentSelection on a population the test assigns,
\* blxAlphaCrossover and gaussianMutation on objects the test writes out

\* bounds that leave the children of (0, 0) and (MaxCoordinate, MaxCoordinate) unclamped
WideDomain ==
    [min |-> -(MaxCoordinate \div 2), max |-> MaxCoordinate + MaxCoordinate \div 2]

UnitConfigs ==
    {[BaseConfig EXCEPT !.mutationRate = r] : r \in {0, 5, 10}}
    \cup {[BaseConfig EXCEPT !.tournamentSize = t] : t \in {1, MaxTournamentSize + 1}}
    \cup {[BaseConfig EXCEPT !.bounds = WideDomain]}

\* the coordinates the tests' individuals take: inside the bounds
TestCoordinates ==
    IF Cfg.bounds = WideDomain THEN {0, MaxCoordinate}
    ELSE Cfg.bounds.min..Cfg.bounds.max

\* { x, y, fitness: x * x + y * y } written out by a test
TestIndividual(x, y) == [id |-> 0, x |-> x, y |-> y, fitness |-> x * x + y * y]

TestIndividuals == {TestIndividual(x, y) : x \in TestCoordinates, y \in TestCoordinates}

\* testableGA.population = population
testSetsPopulation ==
    /\ lastOp = "new"
    /\ \E n \in 1..MaxPopulationSize :
           \E objs \in [1..n -> TestIndividuals] :
               /\ \A i, j \in 1..n : objs[i] = objs[j] => i = j
               /\ population' = Stored(objs, {})
    /\ lastOp' = "testSetsPopulation"
    /\ lastResult' = "none"
    /\ UNCHANGED <<configObjects, config, generation, bestFitness, averageFitness, held,
                   evolveCalls, initialized, givenConfig, calls>>

\* what a test's call of a private method leaves: only its result
Called(op, kind, objs, nums, result) ==
    /\ held' = [kind |-> kind, items |-> objs, stats |-> nums]
    /\ lastOp' = op
    /\ lastResult' = result
    /\ UNCHANGED <<configObjects, config, population, generation, bestFitness,
                   averageFitness, evolveCalls, initialized, givenConfig, calls>>

\* testableGA.tournamentSelection(): the draws and the object returned
testCallsTournamentSelection ==
    IF tournamentThrows
    THEN Called("tournamentSelection", "none", <<>>, <<>>, "TypeError")
    ELSE IF Len(population) = 0
    THEN Called("tournamentSelection", "tournamentSelection", <<EmptyObject>>, <<>>, "object")
    ELSE \E d \in TournamentDraws :
             Called("tournamentSelection", "tournamentSelection",
                    Stored(<<tournamentWinner(d)>>, Ids(population)), d, "object")

\* testableGA.blxAlphaCrossover(parent1, parent2): the parents after the call and
\* the two children
testCallsBlxAlphaCrossover ==
    /\ lastOp = "new"
    /\ \E parent1 \in TestIndividuals, parent2 \in TestIndividuals :
           \E children \in blxAlphaCrossover(parent1, parent2) :
               Called("blxAlphaCrossover", "blxAlphaCrossover",
                      Stored(<<parent1, parent2, children[1], children[2]>>, {}),
                      <<>>, "array")

\* the individuals handed to gaussianMutation: inside the bounds and up to one
\* unit outside them
MutationInputs ==
    {TestIndividual(x, y) : x \in (Cfg.bounds.min - 1)..(Cfg.bounds.max + 1),
                            y \in (Cfg.bounds.min - 1)..(Cfg.bounds.max + 1)}

\* testableGA.gaussianMutation(individual): the individual after the call and
\* the object returned
testCallsGaussianMutation ==
    /\ lastOp = "new"
    /\ \E individual \in MutationInputs :
           \E mutated \in gaussianMutation([individual EXCEPT !.id = 1]) :
               Called("gaussianMutation", "gaussianMutation",
                      Stored(<<[individual EXCEPT !.id = 1], mutated>>, {1}), <<>>, "object")

UnitInit == \E c \in UnitConfigs : Constructed(c)

UnitNext ==
    \/ testSetsPopulation
    \/ testCallsTournamentSelection
    \/ testCallsBlxAlphaCrossover
    \/ testCallsGaussianMutation

SpecUnit == UnitInit /\ [][UnitNext]_vars

----------------------------------------------------------------------------
\* Claims

InBounds(v) == IsNum(v) /\ Cfg.bounds.min <= v /\ v <= Cfg.bounds.max

\* C1: from a freshly initialized engine with generations = G >= 1, the first G
\* consecutive evolve() calls each return true, every later one returns false,
\* and the generation counter is G from the G-th call on.
C1_EvolveTrueExactlyGenerationsTimes ==
    (initialized /\ lastOp = "evolve") =>
        /\ evolveCalls <= Cfg.generations => lastResult = "true" /\ generation = evolveCalls
        /\ evolveCalls > Cfg.generations => lastResult = "false"
        /\ evolveCalls >= Cfg.generations => generation = Cfg.generations

C1_Witness ==
    /\ initialized /\ lastOp = "evolve" /\ lastResult = "false"
    /\ Cfg.generations = MaxGenerations
    /\ evolveCalls = Cfg.generations + 1

\* C2: an evolve() call made when the generation counter is not below generations
\* returns false, and an evolve() call that returns false leaves the population,
\* the generation counter and both histories as they were.
C2_TerminalEvolveChangesNothing ==
    [][(lastOp' = "evolve" /\ (lastResult' = "false" \/ generation >= Cfg.generations))
          => (lastResult' = "false" /\ UNCHANGED engineState)]_vars

C2_Witness ==
    /\ lastOp = "evolve" /\ lastResult = "false"
    /\ generation = Cfg.generations
    /\ Len(population) = MaxPopulationSize
    /\ Len(bestFitness) = generation + 1

\* C3: in every state reached by initializePopulation() and evolve() calls, a
\* non-empty population comes with histories of generation + 1 entries each.
C3_HistoryLengthIsGenerationPlusOne ==
    Len(population) > 0 =>
        Len(bestFitness) = generation + 1 /\ Len(averageFitness) = generation + 1

\* C4: after any evolve() call on an initialized engine the population has
\* populationSize individuals, as before the call, each with x and y within the bounds.
C4_EvolveKeepsSizeAndBounds ==
    initialized =>
        /\ Len(population) = Cfg.populationSize
        /\ lastOp = "evolve" =>
               \A i \in 1..Len(population) :
                   InBounds(population[i].x) /\ InBounds(population[i].y)

C4_Witness ==
    /\ initialized /\ lastOp = "evolve" /\ lastResult = "true"
    /\ Cfg.populationSize = MaxPopulationSize
    /\ Cfg.mutationRate = 5 /\ Cfg.crossoverRate = 5
    /\ \E i \in 1..Len(population) :
           population[i].x = Cfg.bounds.max /\ population[i].y = Cfg.bounds.min

\* C5: initializePopulation() leaves populationSize individuals, each with x and y
\* within the bounds and fitness x*x + y*y, and the generation counter at 0.
C5_InitializeYieldsEvaluatedPopulation ==
    lastOp = "initializePopulation" =>
        /\ Len(population) = Cfg.populationSize
        /\ generation = 0
        /\ \A i \in 1..Len(population) :
               /\ InBounds(population[i].x) /\ InBounds(population[i].y)
               /\ population[i].fitness =
                      population[i].x * population[i].x + population[i].y * population[i].y

C5_Witness ==
    /\ lastOp = "initializePopulation"
    /\ Len(population) = MaxPopulationSize
    /\ \E i \in 1..Len(population) : population[i].fitness = 2 * MaxBound * MaxBound

\* C6: on an engine on which initializePopulation() was never called, evolve() and
\* the getters raise no error, the population stays empty and getBestIndividual()
\* (and currentBest of getStatistics()) is null.
C6_UninitializedEngineIsSafe ==
    ~initialized =>
        /\ lastResult # "TypeError"
        /\ Len(population) = 0
        /\ lastOp = "getBestIndividual" => lastResult = "null"
        /\ held.kind \in {"individual", "statistics"} => held.items = <<>>

\* C7: no write of the caller to a value a getter returned changes the engine's
\* population or histories, and no later initializePopulation() or evolve()
\* changes a value the caller holds.
C7_SnapshotIsolation ==
    [][/\ lastOp' \in {"callerWritesIndividual", "callerEditsArray"}
              => UNCHANGED <<population, bestFitness, averageFitness>>
       /\ lastOp' \in {"initializePopulation", "evolve"} => UNCHANGED held]_vars

\* the constraints of section 3 of the specification on a configuration
ValidConfig(c) ==
    /\ c.populationSize >= 1
    /\ c.generations >= 1
    /\ c.tournamentSize >= 1
    /\ c.bounds.min < c.bounds.max
    /\ 0 <= c.mutationRate /\ c.mutationRate <= 10
    /\ 0 <= c.crossoverRate /\ c.crossoverRate <= 10

\* C8: a configuration that breaks a constraint is rejected by the constructor:
\* no engine exists for it, so nothing is ever called on one.
C8_InvalidConfigRejected ==
    ~ValidConfig(givenConfig) => lastOp = "new" /\ lastResult = "rejected"

\* C9: the configuration the engine works under is the one it was constructed
\* with, whatever the caller does to the object it passed.
C9_ConfigurationFixed == Cfg = givenConfig

\* C10: initializePopulation(), called in the uninitialized, running or terminal
\* phase, leaves a new population of populationSize individuals, generation 0 and
\* one entry in each history, that of the new population; the evolve() calls after
\* it return true exactly generations times, the first of them included.
C10_InitializeResets ==
    /\ [](lastOp = "initializePopulation" =>
            /\ lastResult \in {"uninitialized", "running", "terminal"}
            /\ generation = 0
            /\ Len(population) = Cfg.populationSize
            /\ \A i \in 1..Len(population) : population[i] \in
                   {[o EXCEPT !.id = population[i].id] : o \in createRandomIndividual(Cfg)}
            /\ Len(bestFitness) = 1 /\ Len(averageFitness) = 1
            /\ \A i \in 1..Len(population) : bestFitness[1] <= population[i].fitness
            /\ \E i \in 1..Len(population) : bestFitness[1] = population[i].fitness)
    /\ [][lastOp = "initializePopulation" /\ lastOp' = "evolve"
             => lastResult' = "true" /\ generation' = 1 /\ Len(bestFitness') = 2]_vars
    /\ []((initialized /\ lastOp = "evolve")
             => (lastResult = "true" <=> evolveCalls <= Cfg.generations))

C10_Witness ==
    /\ lastOp = "initializePopulation" /\ lastResult = "terminal"
    /\ generation = 0
    /\ Len(bestFitness) = 1
    /\ Cfg.generations = MaxGenerations

\* C11: an engine configured with functionType f holds, after initializePopulation()
\* and after each advancing evolve(), individuals whose fitness is registry[f].fn(x, y).
C11_FitnessIsRegistryFunction ==
    (/\ Cfg.functionType \in {"sphere", "rosenbrock"}
     /\ lastOp = "initializePopulation" \/ (lastOp = "evolve" /\ lastResult = "true"))
        => \A i \in 1..Len(population) :
               population[i].fitness =
                   RegistryFn(Cfg.functionType, population[i].x, population[i].y)

\* a <= b as JavaScript compares numbers: false when either side is NaN or undefined
Le(a, b) == IsNum(a) /\ IsNum(b) /\ a <= b

\* C12: getBestIndividual() returns null exactly when the population is empty, which
\* is only before the first initializePopulation(); otherwise it returns the
\* individual of the earliest population slot whose fitness is <= that of every other.
C12_BestIndividualIsEarliestMinimum ==
    lastOp = "getBestIndividual" =>
        /\ lastResult = "null" <=> Len(population) = 0
        /\ Len(population) = 0 => ~initialized
        /\ lastResult # "null" =>
               \E k \in 1..Len(population) :
                   /\ held.items = <<population[k]>>
                   /\ \A j \in 1..Len(population) :
                          j # k => Le(population[k].fitness, population[j].fitness)
                   /\ \A j \in 1..(k - 1) :
                          ~Le(population[j].fitness, population[k].fitness)

\* C13: tournamentSelection on a non-empty population draws tournamentSize slots of
\* it, with replacement, and returns a new object equal to the first drawn contender
\* whose fitness is <= that of every drawn contender.
C13_TournamentReturnsFirstBestDrawn ==
    (lastOp = "tournamentSelection" /\ Len(population) > 0) =>
        LET d == held.stats
            winner == held.items[1]
        IN /\ lastResult = "object"
           /\ Len(d) = Cfg.tournamentSize
           /\ \A k \in 1..Len(d) : d[k] \in 1..Len(population)
           /\ winner.id \notin Ids(population)
           /\ \E k \in 1..Len(d) :
                  /\ winner.x = population[d[k]].x
                  /\ winner.y = population[d[k]].y
                  /\ winner.fitness = population[d[k]].fitness
                  /\ \A j \in 1..Len(d) :
                         population[d[k]].fitness <= population[d[j]].fitness
                  /\ \A j \in 1..(k - 1) :
                         population[d[j]].fitness > population[d[k]].fitness

C13_Witness ==
    /\ lastOp = "tournamentSelection"
    /\ Len(held.stats) = MaxTournamentSize + 1
    /\ held.stats[1] # held.stats[2]
    /\ held.stats[3] = held.stats[1]
    /\ population[held.stats[1]].fitness = population[held.stats[2]].fitness
    /\ held.items[1].x = population[held.stats[1]].x
    /\ held.items[1].y = population[held.stats[1]].y

\* C14: no Individual object occupies two population slots, and no object of the
\* population an advancing evolve() leaves is an object of the population before it.
C14_CopyOnSelect ==
    /\ [](\A i, j \in 1..Len(population) : population[i].id = population[j].id => i = j)
    /\ [][(lastOp' = "evolve" /\ lastResult' = "true")
             => Ids(population') \cap Ids(population) = {}]_vars

\* both slots hold the coordinates of one individual of an initial population whose
\* two individuals differed in fitness: it won every tournament and was copied
\* without crossover or mutation
C14_Witness ==
    /\ initialized /\ lastOp = "evolve" /\ lastResult = "true" /\ generation = 1
    /\ Cfg.mutationRate = 0 /\ Cfg.crossoverRate = 0
    /\ Len(population) = 2
    /\ 2 * bestFitness[1] # averageFitness[1][1]
    /\ population[1].x = population[2].x /\ population[1].y = population[2].y
    /\ population[1].id # population[2].id

\* whether v lies in [min(p, q) - 0.5 * |p - q|, max(p, q) + 0.5 * |p - q|] and in the bounds
InBlxInterval(v, p, q) ==
    LET d == IF p < q THEN q - p ELSE p - q
        lo == IF p < q THEN p ELSE q
        hi == IF p < q THEN q ELSE p
    IN /\ 2 * lo - d <= 2 * v /\ 2 * v <= 2 * hi + d
       /\ Cfg.bounds.min <= v /\ v <= Cfg.bounds.max

MutationNext ==
    \/ lastOp # "gaussianMutation" /\ initializePopulation /\ UNCHANGED calls
    \/ lastOp # "gaussianMutation" /\ evolve /\ UNCHANGED calls
    \/ testCallsGaussianMutation

SpecMutation == Init /\ [][MutationNext]_vars

\* C16: with mutationRate = 0 gaussianMutation returns an individual with the
\* coordinates of its input, whatever the input; and an evolve() step with
\* mutationRate = 0 and crossoverRate = 0 gives every individual that has
\* coordinates the coordinates of an individual of the previous population
C16_ZeroRatesKeepCoordinates ==
    /\ [](lastOp = "gaussianMutation" /\ Cfg.mutationRate = 0 =>
             /\ held.items[2].x = held.items[1].x
             /\ held.items[2].y = held.items[1].y)
    /\ [][(/\ lastOp' = "evolve"
           /\ lastResult' = "true"
           /\ Cfg.mutationRate = 0
           /\ Cfg.crossoverRate = 0) =>
            \A i \in 1..Len(population') :
               \/ population'[i].x = Undefined /\ population'[i].y = Undefined
               \/ \E j \in 1..Len(population) :
                      /\ population'[i].x = population[j].x
                      /\ population'[i].y = population[j].y]_vars

C16_Witness ==
    /\ lastOp = "gaussianMutation"
    /\ Cfg.mutationRate = 0
    /\ held.items[1].x = Cfg.bounds.max + 1
    /\ held.items[2].x = Cfg.bounds.max + 1

\* C17: with mutationRate = 1 gaussianMutation returns x and y inside
\* [bounds.min, bounds.max] for every input and every Gaussian draw, and for
\* every mutationRate an input inside the bounds gives an output inside them
C17_MutationRespectsBounds ==
    lastOp = "gaussianMutation" =>
        LET individual == held.items[1]
            mutated == held.items[2]
        IN (\/ Cfg.mutationRate = 10
            \/ InBounds(individual.x) /\ InBounds(individual.y)) =>
               InBounds(mutated.x) /\ InBounds(mutated.y)

C17_Witness ==
    /\ lastOp = "gaussianMutation"
    /\ Cfg.mutationRate = 10
    /\ held.items[1].x = Cfg.bounds.max
    /\ held.items[1].y = Cfg.bounds.min - 1
    /\ held.items[2].x = Cfg.bounds.max
    /\ held.items[2].y = Cfg.bounds.min

\* for (let i = 0; i < 10; i++) ga.evolve()
ClaimedEvolveCalls == 10

\* engines that can run the ten generations, without crossover and mutation
\* and with a tournament of one
LongRunConfigs ==
    GAConfig(1..MaxPopulationSize, {ClaimedEvolveCalls}, {<<0, 0>>}, {1}, {Domain})

LongRunInit == \E c \in LongRunConfigs : Constructed(c)

SpecLongRun == LongRunInit /\ [][Next]_vars

----------------------------------------------------------------------------
\* The registry read directly: its keys, its lookup and its functions

\* the identifiers the tests go through
FunctionTypes == {"sphere", "rosenbrock", "ackley", "rastrigin"}

\* the names the tests expect
ExpectedName ==
    [t \in FunctionTypes |->
        CASE t = "sphere" -> "Sphere Function"
          [] t = "rosenbrock" -> "Rosenbrock Function"
          [] t = "ackley" -> "Ackley Function"
          [] t = "rastrigin" -> "Rastrigin Function"]

\* the integer arguments the functions are evaluated at
GridMax == 5

Grid == -GridMax..GridMax

\* Object.keys(OBJECTIVE_FUNCTIONS): the number of keys
testReadsKeys ==
    \E file \in DOMAIN Registries :
        Called("Object.keys", file, <<>>, <<Cardinality(DOMAIN Registries[file])>>, "array")

\* getObjectiveFunction(type): the entry returned
testCallsGetObjectiveFunction ==
    \E file \in DOMAIN Registries, type \in FunctionTypes :
        Called("getObjectiveFunction", file,
               <<getObjectiveFunction(Registries[file], type)>>, <<>>, type)

\* OBJECTIVE_FUNCTIONS[f].fn(x, y): the arguments and the value
testCallsFn ==
    \E file \in DOMAIN Registries, f \in {"sphere", "rosenbrock"}, x \in Grid, y \in Grid :
        /\ f \in DOMAIN Registries[file]
        /\ Called("fn", file, <<Registries[file][f]>>, <<x, y, RegistryFn(f, x, y)>>, f)

\* the module is loaded and no engine is driven
RegistryInit == Constructed(BaseConfig)

RegistryNext ==
    \/ testReadsKeys
    \/ testCallsGetObjectiveFunction
    \/ testCallsFn

SpecRegistry == RegistryInit /\ [][RegistryNext]_vars

\* C19: the registry has exactly the four entries sphere, rosenbrock, ackley
\* and rastrigin; the lookup of each identifier returns that entry; every entry
\* has bounds.min < bounds.max and a non-empty list of strictly positive
\* contour levels
C19_RegistryHasFourValidEntries ==
    /\ lastOp = "Object.keys" => held.stats = <<4>>
    /\ lastOp = "getObjectiveFunction" =>
           LET entry == held.items[1]
           IN /\ entry # UndefinedEntry
              /\ entry.name = ExpectedName[lastResult]
              /\ entry.bounds.min < entry.bounds.max
              /\ Len(entry.contourLevels) > 0
              /\ \A k \in 1..Len(entry.contourLevels) : entry.contourLevels[k] > 0

\* C20: on the integer grid the registry's sphere is x*x + y*y and its
\* rosenbrock is (1-x)^2 + 100*(y-x^2)^2; each is >= 0 on the grid and is 0
\* only at its minimum, (0,0) and (1,1), which lies inside the entry's bounds
C20_SphereAndRosenbrockValues ==
    lastOp = "fn" =>
        LET x == held.stats[1]
            y == held.stats[2]
            value == held.stats[3]
            bounds == held.items[1].bounds
            minimum == IF lastResult = "sphere" THEN <<0, 0>> ELSE <<1, 1>>
        IN /\ lastResult = "sphere" => value = x * x + y * y
           /\ lastResult = "rosenbrock" =>
                  value = (1 - x) * (1 - x) + 100 * (y - x * x) * (y - x * x)
           /\ value >= 0
           /\ value = 0 <=> <<x, y>> = minimum
           /\ \A k \in 1..2 : bounds.min <= 100 * minimum[k] /\ 100 * minimum[k] <= bounds.max

C20_Witness ==
    /\ lastOp = "fn"
    /\ lastResult = "rosenbrock"
    /\ held.kind = "objective-functions.ts"
    /\ held.stats = <<-1, 1, 4>>

----------------------------------------------------------------------------
\* The engine as the application constructs it and reads its bounds

\* ga().getBounds(): the class declares no method of this name, so the property
\* read gives undefined and the call throws
getBounds ==
    /\ lastOp' = "getBounds"
    /\ lastResult' = "TypeError"
    /\ UNCHANGED <<configObjects, config, population, generation, bestFitness, averageFitness,
                   held, evolveCalls, initialized, givenConfig, calls>>

\* the engines constructed for the functions whose bounds differ from the default
BoundsConfigs == {DriverConfig(f, 1, 1) : f \in DOMAIN OBJECTIVE_FUNCTIONS \ {"sphere"}}

BoundsInit == \E c \in BoundsConfigs : Constructed(c)

BoundsNext ==
    \/ initializePopulation /\ UNCHANGED calls
    \/ evolve /\ UNCHANGED calls
    \/ getBounds

SpecBounds == BoundsInit /\ [][BoundsNext]_vars

\* C21: getBounds() on an engine configured with functionType f returns
\* registry[f].bounds, the interval the engine draws initial individuals from
\* and clamps crossover and mutation results to
C21_GetBoundsReturnsRegistryBounds ==
    lastOp = "getBounds" =>
        /\ lastResult = "object"
        /\ held.stats = <<getBoundsForFunction(Cfg.functionType).min,
                          getBoundsForFunction(Cfg.functionType).max>>
        /\ held.stats = <<Cfg.bounds.min, Cfg.bounds.max>>

\* C22: after an advancing evolve() every individual of the new population
\* carries the fitness of its own coordinates (never the placeholder 0 of a
\* crossover child or the fitness of the parent a mutated copy came from), and
\* the statistics entry appended is computed from these evaluated values
C22_EvolveEvaluatesBeforeStatistics ==
    (lastOp = "evolve" /\ lastResult = "true") =>
        /\ \A i \in 1..Len(population) :
               LET x == population[i].x
                   y == population[i].y
               IN population[i].fitness = IF IsNum(x) /\ IsNum(y) THEN x * x + y * y ELSE NaN
        /\ bestFitness[Len(bestFitness)] = StatBest(population)
        /\ averageFitness[Len(averageFitness)] = StatAverage(population)

C22_Witness ==
    /\ lastOp = "evolve"
    /\ lastResult = "true"
    /\ initialized
    /\ Cfg.crossoverRate = 10
    /\ Len(population) = 2
    /\ population[1].fitness = 2
    /\ population[2].fitness = 1
    /\ bestFitness[Len(bestFitness)] = 1

----------------------------------------------------------------------------
\* evolve() pass by pass.  While a call runs, `held` is its frame: items is
\* the local array newPopulation, stats is the engine state the call found and
\* the pair <<child1, child2>> of the last pass

\* a population of three: the loop takes two passes and the second one starts
\* with a partially built newPopulation
StepPopulationSize == MaxPopulationSize + 1

\* <<mutationRate, crossoverRate>>: every pair of children copied, every pair
\* crossed
StepRatePairs == {<<0, 0>>, <<0, 10>>}

StepConfigs == GAConfig({StepPopulationSize}, {1}, StepRatePairs, {1}, {Domain})

Running == lastOp = "evolve.loop"

\* the loop building the new population in the field it reads
PopulationBuiltInPlace(pop, newPopulation) == newPopulation

\* this.population during the loop: the loop writes the local array only
PopulationDuringLoop(pop, newPopulation) == pop

\* the call and its guard; const newPopulation: Individual[] = []
evolveEnters ==
    /\ ~Running
    /\ evolveCalls < (IF Cfg.generations > 0 THEN Cfg.generations ELSE 0) + ExtraCalls
    /\ evolveCalls' = evolveCalls + 1
    /\ UNCHANGED <<configObjects, config, initialized, givenConfig, calls, population,
                   generation, bestFitness, averageFitness>>
    /\ IF Terminated(Cfg, generation)
       THEN lastOp' = "evolve" /\ lastResult' = "false" /\ held' = NoValue
       ELSE /\ lastOp' = "evolve.loop"
            /\ lastResult' = "running"
            /\ held' = [kind |-> "evolve", items |-> <<>>, stats |-> <<engineState, <<>>>>]

\* one pass of while (newPopulation.length < this.config.populationSize)
evolveLoopPass ==
    /\ Running
    /\ Len(held.items) < Cfg.populationSize
    /\ UNCHANGED <<configObjects, config, initialized, givenConfig, calls, evolveCalls,
                   generation, bestFitness, averageFitness>>
    /\ IF tournamentThrows
       THEN /\ lastOp' = "evolve"
            /\ lastResult' = "TypeError"
            /\ held' = NoValue
            /\ UNCHANGED population
       ELSE \E pair \in Offspring :
               LET pushed == Append(held.items, pair[1])
                   newPopulation == IF PushSecond(Cfg, pushed) THEN Append(pushed, pair[2])
                                    ELSE pushed
               IN /\ held' = [held EXCEPT !.items = newPopulation, !.stats[2] = pair]
                  /\ population' = PopulationDuringLoop(population, newPopulation)
                  /\ UNCHANGED <<lastOp, lastResult>>

\* after the loop: the assignment, the evaluation, the increment, the statistics
evolveFinishes ==
    /\ Running
    /\ ~(Len(held.items) < Cfg.populationSize)
    /\ LET evaluated == evaluatePopulation(Stored(held.items, Ids(population)))
       IN /\ population' = evaluated
          /\ generation' = generation + 1
          /\ bestFitness' = Pushed(bestFitness, StatBest(evaluated))
          /\ averageFitness' = Pushed(averageFitness, StatAverage(evaluated))
    /\ held' = NoValue
    /\ lastOp' = "evolve"
    /\ lastResult' = "true"
    /\ UNCHANGED <<configObjects, config, initialized, givenConfig, calls, evolveCalls>>

StepInit == \E c \in StepConfigs : Constructed(c)

\* calls run to completion: no call starts while evolve() is in its loop
StepNext ==
    \/ ~Running /\ initializePopulation /\ UNCHANGED calls
    \/ evolveEnters
    \/ evolveLoopPass
    \/ evolveFinishes

SpecSteps == StepInit /\ [][StepNext]_vars

\* C23: while evolve() builds the new population the engine's population,
\* generation counter and histories are those the call found, so every
\* tournament draw reads the old population; they change only when the
\* complete new population replaces the old one
C23_EvolveAtomicOnPopulation ==
    /\ [](Running => engineState = held.stats[1])
    /\ [][(Running /\ engineState' # engineState) =>
             /\ lastOp' = "evolve"
             /\ lastResult' = "true"
             /\ Len(held.items) = Cfg.populationSize
             /\ Len(population') = Cfg.populationSize
             /\ \A i \in 1..Len(population') :
                    /\ population'[i].x = held.items[i].x
                    /\ population'[i].y = held.items[i].y]_vars

C23_Witness ==
    /\ Running
    /\ initialized
    /\ Len(held.items) = 2
    /\ Len(population) = StepPopulationSize
    /\ held.items[1].fitness = 0
    /\ held.items[1].x = -1
    /\ population[1].x = 0

IsPrefix(p, q) == Len(p) <= Len(q) /\ SubSeq(q, 1, Len(p)) = p

\* C24: between initializations the histories only grow at the end: an
\* advancing evolve() appends exactly one entry to bestFitness and one to
\* averageFitness and leaves the earlier entries as they were, and an evolve()
\* that does not advance leaves the histories unchanged
C24_HistoryAppendOnly ==
    [][lastOp' = "evolve" =>
          IF lastResult' = "true"
          THEN /\ Len(bestFitness') = Len(bestFitness) + 1
               /\ Len(averageFitness') = Len(averageFitness) + 1
               /\ IsPrefix(bestFitness, bestFitness')
               /\ IsPrefix(averageFitness, averageFitness')
          ELSE bestFitness' = bestFitness /\ averageFitness' = averageFitness]_vars

C24_Witness ==
    /\ lastOp = "evolve"
    /\ lastResult = "true"
    /\ initialized
    /\ Len(bestFitness) = 3
    /\ bestFitness[1] # bestFitness[2]
    /\ bestFitness[2] # bestFitness[3]
    /\ averageFitness[1] # averageFitness[3]

\* C25: in every state reached by initializePopulation() and evolve() calls the
\* generation counter is between 0 and generations; an evolve() that returns
\* true raises it by one, initializePopulation() sets it to 0, and nothing
\* else changes it
C25_GenerationCounterBounded ==
    /\ [](0 <= generation /\ generation <= Cfg.generations)
    /\ [][/\ (lastOp' = "evolve" /\ lastResult' = "true") => generation' = generation + 1
          /\ lastOp' = "initializePopulation" => generation' = 0
          /\ generation' # generation =>
                 \/ lastOp' = "evolve" /\ lastResult' = "true"
                 \/ lastOp' = "initializePopulation"]_vars

C25_Witness ==
    /\ lastOp = "evolve"
    /\ lastResult = "true"
    /\ initialized
    /\ Cfg.generations = MaxGenerations
    /\ generation = Cfg.generations
    /\ evolveCalls = generation

\* C26: with an odd populationSize n evolve() makes ceil(n / 2) pairings; every
\* pairing but the last adds both of its children to the new population, the
\* last adds its first child only, and the new population has exactly n
\* individuals
C26_OddSizeDropsLastSecondChild ==
    /\ [](Running /\ Cfg.populationSize % 2 = 1 =>
             /\ Len(held.items) <= Cfg.populationSize
             /\ Len(held.items) % 2 = 0 \/ Len(held.items) = Cfg.populationSize)
    /\ [][(Running /\ Running' /\ held' # held /\ Cfg.populationSize % 2 = 1) =>
             LET child1 == held'.stats[2][1]
                 child2 == held'.stats[2][2]
             IN IF Len(held.items) + 2 <= Cfg.populationSize
                THEN held'.items = held.items \o <<child1, child2>>
                ELSE /\ held'.items = Append(held.items, child1)
                     /\ Len(held'.items) = Cfg.populationSize]_vars
    /\ [][(Running /\ lastResult' = "true" /\ Cfg.populationSize % 2 = 1) =>
             Len(population') = Cfg.populationSize]_vars

C26_Witness ==
    /\ Running
    /\ initialized
    /\ Cfg.populationSize = StepPopulationSize
    /\ Len(held.items) = StepPopulationSize
    /\ held.stats[2][1].x # held.stats[2][2].x
    /\ held.items[StepPopulationSize].x = held.stats[2][1].x

\* C27: on an initialized engine with populationSize = 1 every tournament
\* returns a copy of the sole individual, and every evolve() before the
\* generation cap returns true and leaves exactly one individual, inside the
\* bounds, with histories of generation + 1 entries
C27_SingleIndividualEvolves ==
    /\ []((initialized /\ Cfg.populationSize = 1) =>
             \A winner \in tournamentSelection :
                /\ winner.id = 0
                /\ winner.x = population[1].x
                /\ winner.y = population[1].y
                /\ winner.fitness = population[1].fitness)
    /\ [][(/\ initialized
           /\ Cfg.populationSize = 1
           /\ lastOp' = "evolve"
           /\ generation < Cfg.generations) =>
             /\ lastResult' = "true"
             /\ Len(population') = 1
             /\ Cfg.bounds.min <= population'[1].x /\ population'[1].x <= Cfg.bounds.max
             /\ Cfg.bounds.min <= population'[1].y /\ population'[1].y <= Cfg.bounds.max
             /\ Len(bestFitness') = generation' + 1
             /\ Len(averageFitness') = generation' + 1]_vars

C27_Witness ==
    /\ initialized
    /\ Cfg.populationSize = 1
    /\ Cfg.tournamentSize = MaxTournamentSize
    /\ lastOp = "evolve"
    /\ lastResult = "true"
    /\ generation = MaxGenerations
    /\ Len(population) = 1
    /\ Len(bestFitness) = MaxGenerations + 1

----------------------------------------------------------------------------
\* The engine with a caller that only reads it

ReaderNext ==
    \/ Counted /\ initializePopulation
    \/ Counted /\ evolve
    \/ Counted /\ getGeneration
    \/ Counted /\ getBestIndividual
    \/ Counted /\ getStatistics

SpecReader == CallerInit /\ [][ReaderNext]_vars

\* a === b for numbers: NaN equals nothing
Same(a, b) == a # NaN /\ b # NaN /\ a = b

\* C28: in every state reached by initializePopulation() and evolve() calls in
\* which the population is not empty, the last entry of bestFitness is the
\* minimum fitness of the population and is the fitness of what
\* getBestIndividual() returns and of currentBest of getStatistics(), and the
\* generation of getStatistics() is the engine's generation counter
C28_LastBestIsCurrentMinimum ==
    Len(population) > 0 =>
        LET last == bestFitness[Len(bestFitness)]
        IN /\ \E i \in 1..Len(population) : Same(last, population[i].fitness)
           /\ \A i \in 1..Len(population) : Le(last, population[i].fitness)
           /\ lastOp \in {"getBestIndividual", "getStatistics"} =>
                  /\ Len(held.items) = 1
                  /\ Same(held.items[1].fitness, last)
           /\ lastOp = "getStatistics" => held.stats[1] = generation
           /\ lastOp = "getGeneration" => held.stats[1] = generation

----------------------------------------------------------------------------
\* gaussianRandom() draw by draw.  While the call runs, `held` is its frame:
\* stats is <<u, v>>, and <<u, v, argument of Math.log>> once it has returned

\* Math.random() gives k / UniformLevels for k in 0..UniformLevels - 1
UniformLevels == 10

MathRandom == 0..(UniformLevels - 1)

\* the loops left out: the first values of u and v are used
RedrawNever(w) == FALSE

\* while (u === 0), while (v === 0)
Redraw(w) == w = 0

InGaussianRandom == lastOp = "gaussianRandom.loop"

Frame(op, result, nums) ==
    /\ lastOp' = op
    /\ lastResult' = result
    /\ held' = [kind |-> "gaussianRandom", items |-> <<>>, stats |-> nums]
    /\ UNCHANGED <<configObjects, config, population, generation, bestFitness,
                   averageFitness, evolveCalls, initialized, givenConfig, calls>>

\* let u = 0, v = 0
gaussianRandomEnters ==
    /\ ~InGaussianRandom
    /\ Frame("gaussianRandom.loop", "running", <<0, 0>>)

\* while (u === 0) u = Math.random()
gaussianRandomDrawsU ==
    /\ InGaussianRandom
    /\ Redraw(held.stats[1])
    /\ \E r \in MathRandom : Frame("gaussianRandom.loop", "running", <<r, held.stats[2]>>)

\* while (v === 0) v = Math.random()
gaussianRandomDrawsV ==
    /\ InGaussianRandom
    /\ ~Redraw(held.stats[1])
    /\ Redraw(held.stats[2])
    /\ \E r \in MathRandom : Frame("gaussianRandom.loop", "running", <<held.stats[1], r>>)

\* return Math.sqrt(-2.0 * Math.log(u)) * Math.cos(2.0 * Math.PI * v)
gaussianRandomReturns ==
    /\ InGaussianRandom
    /\ ~Redraw(held.stats[1])
    /\ ~Redraw(held.stats[2])
    /\ Frame("gaussianRandom", "number", <<held.stats[1], held.stats[2], held.stats[1]>>)

GaussianRandomInit == Constructed(BaseConfig)

GaussianRandomNext ==
    \/ gaussianRandomEnters
    \/ gaussianRandomDrawsU
    \/ gaussianRandomDrawsV
    \/ gaussianRandomReturns

\* a draw that changes u or v is a non-zero draw: the uniform source does not
\* give 0 forever, and the call is not abandoned half way
SpecGaussianRandom ==
    /\ GaussianRandomInit
    /\ [][GaussianRandomNext]_vars
    /\ WF_vars(gaussianRandomDrawsU)
    /\ WF_vars(gaussianRandomDrawsV)
    /\ WF_vars(gaussianRandomReturns)

\* C29: gaussianRandom() redraws each of its two uniform values while it is
\* exactly 0, so the argument of the logarithm is greater than 0, and the call
\* returns provided the uniform source eventually gives a non-zero value
C29_GaussianRandomAvoidsLogOfZero ==
    /\ [](lastOp = "gaussianRandom" =>
             /\ held.stats[1] > 0
             /\ held.stats[2] > 0
             /\ held.stats[3] > 0)
    /\ InGaussianRandom ~> lastOp = "gaussianRandom"

C29_Witness ==
    /\ lastOp = "gaussianRandom"
    /\ held.stats = <<1, UniformLevels - 1, 1>>

----------------------------------------------------------------------------
\* The driver hook useGeneticAlgorithm.  `held` is the hook's own state: items
\* and stats are the signals population() and statistics(), isRunning and
\* animationSpeed are signals, intervalId is the local (0 for null) and
\* timers is the set of interval timers the platform has active, each with the
\* id setInterval returned and the delay it was created with; populationSize,
\* generations and functionType are the parameter signals; the engine of the
\* ga signal is the engine of the model's variables

DEFAULT_ANIMATION_SPEED == 500

\* the low end of the speed slider
SliderMin == 50

AnimationSpeeds == {DEFAULT_ANIMATION_SPEED, SliderMin}

\* the hook with rosenbrock selected, the function of the smallest domain, and
\* one individual
HookConfigs == {DriverConfig("rosenbrock", 1, MaxGenerations)}

\* setPopulation alone: the statistics signal keeps its value
SignalledPopulationOnly(h, pop, gen, best, average) == [h EXCEPT !.items = pop]

\* setPopulation(ga().getPopulation()); setStatistics(ga().getStatistics())
Signalled(h, pop, gen, best, average) ==
    [h EXCEPT !.items = pop,
              !.stats = <<gen, best, average>>,
              !.currentBest = IF Len(pop) = 0 THEN <<>> ELSE <<ReduceBest(pop, Len(pop))>>]

\* start without its first line: a timer is created whether or not one runs
StartedUnguarded(h) ==
    LET id == FreshId({t.id : t \in h.timers})
    IN [h EXCEPT !.isRunning = TRUE,
                 !.intervalId = id,
                 !.timers = h.timers \cup {[id |-> id, delay |-> h.animationSpeed]}]

\* start(): setInterval returns an id that no active timer has
Started(h) ==
    IF h.isRunning THEN h
    ELSE LET id == FreshId({t.id : t \in h.timers})
         IN [h EXCEPT !.isRunning = TRUE,
                      !.intervalId = id,
                      !.timers = h.timers \cup {[id |-> id, delay |-> h.animationSpeed]}]

\* stop without its clearInterval
StoppedKeepsTimer(h) == [h EXCEPT !.isRunning = FALSE, !.intervalId = 0]

\* stop(): if (intervalId) tests for a non-null, non-zero id
Stopped(h) ==
    [h EXCEPT !.isRunning = FALSE,
              !.intervalId = 0,
              !.timers = IF h.intervalId # 0 THEN {t \in h.timers : t.id # h.intervalId}
                         ELSE h.timers]

HookDid(op, result) ==
    /\ lastOp' = op
    /\ lastResult' = result
    /\ UNCHANGED <<configObjects, config, givenConfig, evolveCalls, calls>>

EngineUnchanged == UNCHANGED <<population, generation, bestFitness, averageFitness, initialized>>

\* initializeGA(): ga().initializePopulation() and the two signals
initializeGA(h, op) ==
    \E created \in [1..Cfg.populationSize -> createRandomIndividual(Cfg)] :
        LET evaluated == evaluatePopulation(Stored(created, Ids(held.items)))
            best == Pushed(ClearedHistory(bestFitness), StatBest(evaluated))
            average == Pushed(ClearedHistory(averageFitness), StatAverage(evaluated))
        IN /\ population' = evaluated
           /\ generation' = 0
           /\ bestFitness' = best
           /\ averageFitness' = average
           /\ initialized' = TRUE
           /\ held' = Signalled(h, evaluated, 0, best, average)
           /\ HookDid(op, "none")

\* step(): ga().evolve(), the two signals, and stop() when evolve() returned false
hookStep(op) ==
    IF Terminated(Cfg, generation)
    THEN /\ EngineUnchanged
         /\ held' = Stopped(Signalled(held, population, generation, bestFitness,
                                      averageFitness))
         /\ HookDid(op, "false")
    ELSE \E newPopulation \in Breed(<<>>, Offspring) :
            LET evaluated == evaluatePopulation(
                                 Stored(newPopulation, Ids(population) \cup Ids(held.items)))
                best == Pushed(bestFitness, StatBest(evaluated))
                average == Pushed(averageFitness, StatAverage(evaluated))
            IN /\ population' = evaluated
               /\ generation' = generation + 1
               /\ bestFitness' = best
               /\ averageFitness' = average
               /\ UNCHANGED initialized
               /\ held' = Signalled(held, evaluated, generation + 1, best, average)
               /\ HookDid(op, "true")

start == held' = Started(held) /\ EngineUnchanged /\ HookDid("start", "none")

stop == held' = Stopped(held) /\ EngineUnchanged /\ HookDid("stop", "none")

step == hookStep("step")

\* the callback of an active interval timer
tick == held.timers # {} /\ hookStep("tick")

reset == initializeGA(Stopped(held), "reset")

\* setAnimationSpeed(speed); if (isRunning()) { stop(); start(); }
handleSpeedChange ==
    \E speed \in AnimationSpeeds :
        LET h == [held EXCEPT !.animationSpeed = speed]
        IN /\ held' = IF h.isRunning THEN Started(Stopped(h)) ELSE h
           /\ EngineUnchanged
           /\ HookDid("handleSpeedChange", "none")

\* the hook after its set-up: the engine constructed, the signals created and
\* initializeGA() called
HookInit ==
    \E c \in HookConfigs :
        \E created \in [1..c.populationSize -> createRandomIndividual(c)] :
            LET evaluated == evaluatePopulation(Stored(created, {}))
            IN /\ configObjects = [o \in {"arg"} |-> c]
               /\ config = "arg"
               /\ givenConfig = c
               /\ population = evaluated
               /\ generation = 0
               /\ bestFitness = <<StatBest(evaluated)>>
               /\ averageFitness = <<StatAverage(evaluated)>>
               /\ initialized = TRUE
               /\ evolveCalls = 0
               /\ calls = 0
               /\ lastOp = "useGeneticAlgorithm"
               /\ lastResult = "none"
               /\ held = [kind |-> "useGeneticAlgorithm",
                          items |-> evaluated,
                          stats |-> <<0, <<StatBest(evaluated)>>, <<StatAverage(evaluated)>>>>,
                          currentBest |-> <<ReduceBest(evaluated, Len(evaluated))>>,
                          populationSize |-> c.populationSize,
                          generations |-> c.generations,
                          functionType |-> c.functionType,
                          isRunning |-> FALSE,
                          animationSpeed |-> DEFAULT_ANIMATION_SPEED,
                          intervalId |-> 0,
                          timers |-> {}]

HookNext ==
    \/ start
    \/ stop
    \/ step
    \/ tick
    \/ reset
    \/ handleSpeedChange

SpecHook == HookInit /\ [][HookNext]_vars

\* C30: under every interleaving of start, stop, step, reset, speed change and
\* timer ticks at most one interval timer is active and isRunning is true
\* exactly when one is; start while running creates no timer; a speed change
\* while running leaves exactly one timer, created with the new speed, and a
\* speed change while stopped starts none
C30_AtMostOneTimer ==
    /\ [](/\ Cardinality(held.timers) <= 1
          /\ held.isRunning <=> held.timers # {}
          /\ \A t \in held.timers : t.id = held.intervalId)
    /\ [][(lastOp' = "start" /\ held.isRunning) => held'.timers = held.timers]_vars
    /\ [][lastOp' = "handleSpeedChange" =>
             IF held.isRunning
             THEN held'.timers = {[id |-> held'.intervalId, delay |-> held'.animationSpeed]}
             ELSE held'.timers = {}]_vars

C30_Witness ==
    /\ lastOp = "handleSpeedChange"
    /\ held.isRunning
    /\ held.animationSpeed = SliderMin
    /\ held.timers = {[id |-> held.intervalId, delay |-> SliderMin]}
    /\ generation = 1

----------------------------------------------------------------------------
\* A started run that is left alone: the caller calls start() and the platform
\* fires the timer; an active interval timer fires again and again, so its
\* callback is weakly fair

AutoStopNext ==
    \/ start
    \/ tick

SpecAutoStop == HookInit /\ [][AutoStopNext]_vars /\ WF_vars(tick)

\* C31: a started driver that only receives timer ticks reaches isRunning =
\* false with no active timer and generation = generations; the tick whose
\* evolve() returns false is the one at generation = generations, it clears
\* the timer, and every tick that runs is the callback of a running driver
C31_DriverStopsAtGenerationCap ==
    /\ held.isRunning ~> (/\ ~held.isRunning
                          /\ held.timers = {}
                          /\ generation = Cfg.generations)
    /\ [][lastOp' = "tick" =>
             /\ held.isRunning
             /\ lastResult' = "false" <=> generation = Cfg.generations
             /\ lastResult' = "false" =>
                    /\ held'.timers = {}
                    /\ ~held'.isRunning
                    /\ generation' = generation]_vars

C31_Witness ==
    /\ lastOp = "tick"
    /\ lastResult = "false"
    /\ ~held.isRunning
    /\ held.timers = {}
    /\ generation = Cfg.generations
    /\ Len(bestFitness) = Cfg.generations + 1

----------------------------------------------------------------------------
\* The parameter inputs of the hook.  An input string is the sequence of its
\* characters

\* parseInt(value): leading white space, a sign, then the longest run of
\* decimal digits; NaN when there is no digit
parseInt(value) ==
    LET DigitValue ==
            [ch \in {"0", "1", "2", "3", "4", "5", "6", "7", "8", "9"} |->
                CASE ch = "0" -> 0 [] ch = "1" -> 1 [] ch = "2" -> 2 [] ch = "3" -> 3
                  [] ch = "4" -> 4 [] ch = "5" -> 5 [] ch = "6" -> 6 [] ch = "7" -> 7
                  [] ch = "8" -> 8 [] ch = "9" -> 9]
        RECURSIVE Digits(_, _, _)
        Digits(t, n, seen) ==
            IF t # <<>> /\ Head(t) \in DOMAIN DigitValue
            THEN Digits(Tail(t), 10 * n + DigitValue[Head(t)], TRUE)
            ELSE IF seen THEN n ELSE NaN
        RECURSIVE Trimmed(_)
        Trimmed(t) == IF t # <<>> /\ Head(t) = " " THEN Trimmed(Tail(t)) ELSE t
        s == Trimmed(value)
    IN IF s # <<>> /\ Head(s) = "-"
       THEN LET n == Digits(Tail(s), 0, FALSE) IN IF n = NaN THEN NaN ELSE -n
       ELSE IF s # <<>> /\ Head(s) = "+" THEN Digits(Tail(s), 0, FALSE)
       ELSE Digits(s, 0, FALSE)

MIN_POPULATION_SIZE == 1
MAX_POPULATION_SIZE == 1000
MIN_GENERATIONS == 1
MAX_GENERATIONS == 1000

\* parseInt(value) without the || of the minimum
OrMinimumNever(n, minimum) == n

\* parseInt(value) || minimum: NaN and 0 are falsy
OrMinimum(n, minimum) == IF n = NaN \/ n = 0 THEN minimum ELSE n

\* Math.max(minimum, Math.min(maximum, parseInt(value) || minimum))
ValidatedValue(value, minimum, maximum) ==
    MathMax2(minimum, MathMin2(maximum, OrMinimum(parseInt(value), minimum)))

\* updateGAConfig(): a new engine from the signals in the ga signal,
\* initialized, and the two signals published from it
updateGAConfig(h, op) ==
    LET c == DriverConfig(h.functionType, h.populationSize, h.generations)
    IN \E created \in [1..c.populationSize -> createRandomIndividual(c)] :
           LET evaluated == evaluatePopulation(
                                Stored(created, Ids(population) \cup Ids(h.items)))
               best == Pushed(<<>>, StatBest(evaluated))
               average == Pushed(<<>>, StatAverage(evaluated))
           IN /\ configObjects' = [o \in {"arg"} |-> c]
              /\ config' = "arg"
              /\ givenConfig' = c
              /\ population' = evaluated
              /\ generation' = 0
              /\ bestFitness' = best
              /\ averageFitness' = average
              /\ initialized' = TRUE
              /\ held' = Signalled(h, evaluated, 0, best, average)
              /\ lastOp' = op
              /\ lastResult' = "none"
              /\ UNCHANGED <<evolveCalls, calls>>

\* the end of the three handlers: if (!isRunning()) updateGAConfig()
ParameterSet(h, op) ==
    IF h.isRunning
    THEN held' = h /\ EngineUnchanged /\ HookDid(op, "none")
    ELSE updateGAConfig(h, op)

validateAndSetPopulationSize(value, op) ==
    ParameterSet([held EXCEPT !.populationSize =
                                  ValidatedValue(value, MIN_POPULATION_SIZE,
                                                 MAX_POPULATION_SIZE)], op)

validateAndSetGenerations(value, op) ==
    ParameterSet([held EXCEPT !.generations =
                                  ValidatedValue(value, MIN_GENERATIONS, MAX_GENERATIONS)], op)

----------------------------------------------------------------------------
\* The hook behind the ControlPanel: the select and the two number inputs are
\* disabled while isRunning, so their events arrive while the driver is not
\* running

\* what is typed into the number inputs
PanelInputs == {<<"2">>, <<"0">>}

\* the parameter combinations followed with steps and ticks
PanelConfigs == {DriverConfig("rosenbrock", 1, g) : g \in 1..MaxGenerations}

\* onInput of the population size input
handlePopulationSizeChange(configs) ==
    /\ ~held.isRunning
    /\ \E value \in PanelInputs :
          /\ DriverConfig(held.functionType,
                          ValidatedValue(value, MIN_POPULATION_SIZE, MAX_POPULATION_SIZE),
                          held.generations) \in configs
          /\ validateAndSetPopulationSize(value, "handlePopulationSizeChange")

\* onInput of the generations input
handleGenerationsChange(configs) ==
    /\ ~held.isRunning
    /\ \E value \in PanelInputs :
          /\ DriverConfig(held.functionType, held.populationSize,
                          ValidatedValue(value, MIN_GENERATIONS, MAX_GENERATIONS)) \in configs
          /\ validateAndSetGenerations(value, "handleGenerationsChange")

PanelNext ==
    \/ start
    \/ stop
    \/ step
    \/ tick
    \/ reset
    \/ handlePopulationSizeChange(PanelConfigs)
    \/ handleGenerationsChange(PanelConfigs)

SpecPanel == HookInit /\ [][PanelNext]_vars

\* C32: after the set-up and after every step, timer tick, reset and parameter
\* change the population and statistics signals are the population, the
\* generation, the two histories and the best individual of the engine in the
\* ga signal
C32_SignalsShowCurrentEngine ==
    /\ held.items = population
    /\ held.stats = <<generation, bestFitness, averageFitness>>
    /\ held.currentBest = IF Len(population) = 0 THEN <<>>
                          ELSE <<ReduceBest(population, Len(population))>>

C32_Witness ==
    /\ lastOp = "tick"
    /\ Cfg.generations = 1
    /\ generation = 1
    /\ held.stats[1] = 1
    /\ Len(held.stats[2]) = 2
    /\ held.items = population
    /\ ~held.isRunning

----------------------------------------------------------------------------
\* A parameter change statement by statement: the handler sets its signal and
\* updateGAConfig() puts a new engine into the ga signal; initializePopulation()
\* pushes the individuals one at a time; the population is evaluated, the
\* statistics are appended and the two signals are published.  lastResult
\* holds the handler that is being run

\* the strings the handlers are called with
InputStrings ==
    {<<>>, <<"a", "b", "c">>, <<"0">>, <<"-", "5">>, <<"2">>, <<"1", ".", "5">>,
     <<"1", "0", "0", "1">>}

\* the parameter combinations followed: two of three functions, and more than
\* one individual on the smallest domain and with the generation count of the
\* hook's set-up only
ReconfigureConfigs ==
    {DriverConfig("rosenbrock", MIN_POPULATION_SIZE, g) :
        g \in {MIN_GENERATIONS, MaxGenerations, MAX_GENERATIONS}}
    \cup {DriverConfig("rosenbrock", n, MaxGenerations) :
              n \in {MaxPopulationSize, MAX_POPULATION_SIZE}}
    \cup {DriverConfig("ackley", MIN_POPULATION_SIZE, MIN_GENERATIONS)}

InUpdate == lastOp \in {"updateGAConfig.setGA", "initializePopulation.loop"}

\* the engine's fields changed where they are, in place of a new engine
EngineKept ==
    [population |-> population, generation |-> generation, bestFitness |-> bestFitness,
     averageFitness |-> averageFitness, initialized |-> initialized]

\* the fields of new GeneticAlgorithm(config)
EngineConstructed ==
    [population |-> <<>>, generation |-> 0, bestFitness |-> <<>>, averageFitness |-> <<>>,
     initialized |-> FALSE]

\* the handler up to setGA(newGA), with its signal set in h
ParameterSetEnters(h, op) ==
    IF h.isRunning
    THEN held' = h /\ EngineUnchanged /\ HookDid(op, "none")
    ELSE LET c == DriverConfig(h.functionType, h.populationSize, h.generations)
             newGA == EngineConstructed
         IN /\ configObjects' = [o \in {"arg"} |-> c]
            /\ config' = "arg"
            /\ givenConfig' = c
            /\ population' = newGA.population
            /\ generation' = newGA.generation
            /\ bestFitness' = newGA.bestFitness
            /\ averageFitness' = newGA.averageFitness
            /\ initialized' = newGA.initialized
            /\ held' = h
            /\ lastOp' = "updateGAConfig.setGA"
            /\ lastResult' = op
            /\ UNCHANGED <<evolveCalls, calls>>

validateAndSetPopulationSizeEnters ==
    /\ ~InUpdate
    /\ ~held.isRunning
    /\ \E value \in InputStrings :
          LET h == [held EXCEPT !.populationSize =
                        ValidatedValue(value, MIN_POPULATION_SIZE, MAX_POPULATION_SIZE)]
          IN /\ IsNum(h.populationSize) =>
                    DriverConfig(h.functionType, h.populationSize, h.generations)
                        \in ReconfigureConfigs
             /\ ParameterSetEnters(h, "validateAndSetPopulationSize")

validateAndSetGenerationsEnters ==
    /\ ~InUpdate
    /\ ~held.isRunning
    /\ \E value \in InputStrings :
          LET h == [held EXCEPT !.generations =
                        ValidatedValue(value, MIN_GENERATIONS, MAX_GENERATIONS)]
          IN /\ IsNum(h.generations) =>
                    DriverConfig(h.functionType, h.populationSize, h.generations)
                        \in ReconfigureConfigs
             /\ ParameterSetEnters(h, "validateAndSetGenerations")

\* onChange of the select: another option was chosen
handleFunctionTypeChangeEnters ==
    /\ ~InUpdate
    /\ ~held.isRunning
    /\ \E newFunctionType \in DOMAIN OBJECTIVE_FUNCTIONS \ {held.functionType} :
          LET h == [held EXCEPT !.functionType = newFunctionType]
          IN /\ DriverConfig(h.functionType, h.populationSize, h.generations)
                    \in ReconfigureConfigs
             /\ ParameterSetEnters(h, "handleFunctionTypeChange")

\* one pass of the loop of initializePopulation(); the loop is followed for
\* engines of up to MaxPopulationSize individuals
updateGAConfigPushes ==
    /\ InUpdate
    /\ IsNum(Cfg.populationSize)
    /\ Cfg.populationSize <= MaxPopulationSize
    /\ Len(population) < Cfg.populationSize
    /\ \E created \in createRandomIndividual(Cfg) :
          population' = population
                            \o Stored(<<created>>, Ids(population) \cup Ids(held.items))
    /\ lastOp' = "initializePopulation.loop"
    /\ UNCHANGED <<configObjects, config, givenConfig, generation, bestFitness, averageFitness,
                   initialized, held, lastResult, evolveCalls, calls>>

\* the loop is left: evaluatePopulation(), updateStatistics() and the signals
updateGAConfigFinishes ==
    /\ InUpdate
    /\ ~Lt(Len(population), Cfg.populationSize)
    /\ LET evaluated == evaluatePopulation(population)
           best == Pushed(bestFitness, StatBest(evaluated))
           average == Pushed(averageFitness, StatAverage(evaluated))
       IN /\ population' = evaluated
          /\ bestFitness' = best
          /\ averageFitness' = average
          /\ initialized' = TRUE
          /\ held' = Signalled(held, evaluated, generation, best, average)
    /\ lastOp' = lastResult
    /\ lastResult' = "none"
    /\ UNCHANGED <<configObjects, config, givenConfig, generation, evolveCalls, calls>>

ReconfigureNext ==
    \/ ~InUpdate /\ start
    \/ ~InUpdate /\ stop
    \/ validateAndSetPopulationSizeEnters
    \/ validateAndSetGenerationsEnters
    \/ handleFunctionTypeChangeEnters
    \/ updateGAConfigPushes
    \/ updateGAConfigFinishes

SpecReconfigure == HookInit /\ [][ReconfigureNext]_vars

SignalConfig == DriverConfig(held.functionType, held.populationSize, held.generations)

\* C33: a parameter change applied while not running leaves the published
\* objects of the old engine as they are and puts a newly constructed engine
\* in their place, which is then initialized with generation 0, one entry in
\* each history and a population of the new size made of new objects; and
\* whenever the driver is not running the engine's configuration is the one
\* built from the three parameter signals
C33_ReconfigurationReplacesEngine ==
    /\ [](~held.isRunning => (Cfg = SignalConfig /\ givenConfig = Cfg))
    /\ [][lastOp' = "updateGAConfig.setGA" =>
             /\ population' = <<>> /\ generation' = 0
             /\ bestFitness' = <<>> /\ averageFitness' = <<>>
             /\ held'.items = held.items /\ held'.stats = held.stats]_vars
    /\ [][(InUpdate /\ ~InUpdate') =>
             /\ generation' = 0
             /\ Len(bestFitness') = 1 /\ Len(averageFitness') = 1
             /\ Len(population') = held'.populationSize
             /\ Ids(population') \cap Ids(held.items) = {}
             /\ held'.items = population'
             /\ Cfg' = SignalConfig']_vars

C33_Witness ==
    /\ lastOp = "validateAndSetPopulationSize"
    /\ ~held.isRunning
    /\ held.populationSize = MaxPopulationSize
    /\ Len(population) = MaxPopulationSize
    /\ Cfg = SignalConfig
    /\ generation = 0
    /\ Len(bestFitness) = 1

\* C34: whatever string a handler is given, the population size and the
\* generation count in the signals and in the configuration of every engine
\* the driver constructs are integers from 1 to 1000
C34_ParametersClamped ==
    /\ held.populationSize \in MIN_POPULATION_SIZE..MAX_POPULATION_SIZE
    /\ held.generations \in MIN_GENERATIONS..MAX_GENERATIONS
    /\ Cfg.populationSize \in MIN_POPULATION_SIZE..MAX_POPULATION_SIZE
    /\ Cfg.generations \in MIN_GENERATIONS..MAX_GENERATIONS
    /\ givenConfig.populationSize >= 1
    /\ givenConfig.generations >= 1

C34_Witness ==
    /\ lastOp = "updateGAConfig.setGA"
    /\ lastResult = "validateAndSetGenerations"
    /\ held.generations = MAX_GENERATIONS
    /\ Cfg.generations = MAX_GENERATIONS
    /\ held.populationSize = MIN_POPULATION_SIZE

====
